---- MODULE Spec2Model ----
(***************************************************************************)
(* A model of hlmon (src/main.go): a single-process monitor that reads the *)
(* newest validator log file, decodes the last record, decides whether to  *)
(* alert and posts the alert to Slack and PagerDuty.                       *)
(*                                                                         *)
(* Floating point seconds are modelled as integers counting hundredths of  *)
(* a second: 40 s is 4000 and 0.02 s is 2.                                 *)
(***************************************************************************)
EXTENDS Integers, Sequences, FiniteSets, TLC

VARIABLES
    pc,             \* position of the single control flow
    config,         \* Config as loaded from config.toml
    fs,             \* directory listings under config.BasePath
    latestLogFile,  \* main's latestLogFile
    file,           \* content of the log file as opened in this cycle
    pos,            \* decoder: number of values of file consumed
    decErr,         \* decoder: its sticky error (dec.err)
    lastRawEntry,   \* main's lastRawEntry
    handles,        \* number of open handles to the log file
    logEntry,       \* argument of the running processLogEntry call
    alertMessage,   \* processLogEntry's alertMessage
    alerts,         \* notifier calls issued in this cycle
    evaluated,      \* snapshots passed to processLogEntry in this cycle
    lastAttempt,    \* outcome of the last os.Open
    lastSleep,      \* seconds slept since the last os.Open, 0 when none
    openedPath,     \* name passed to the last os.Open, empty before the first
    alertedBefore,  \* an earlier cycle of this run issued a notifier call
    errLines,       \* "Error decoding JSON line" messages logged, modulo 2
    input,          \* argument of a function applied on its own
    output          \* its result

vars == <<pc, config, fs, latestLogFile, file, pos, decErr, lastRawEntry, handles,
          logEntry, alertMessage, alerts, evaluated, lastAttempt, lastSleep,
          openedPath, alertedBefore, errLines, input, output>>

(***************************************************************************)
(* JSON values.  Every value is a record of the same shape, so that values *)
(* of different JSON types can be compared: t is the type, n the number,   *)
(* s the string, a the array elements, o the object members in order.      *)
(***************************************************************************)
JNull == [t |-> "null", n |-> 0, s |-> "", a |-> <<>>, o |-> <<>>]

JNum(x) == [t |-> "num", n |-> x, s |-> "", a |-> <<>>, o |-> <<>>]

JStr(x) == [t |-> "str", n |-> 0, s |-> x, a |-> <<>>, o |-> <<>>]

JArr(elems) == [t |-> "arr", n |-> 0, s |-> "", a |-> elems, o |-> <<>>]

JObj(members) == [t |-> "obj", n |-> 0, s |-> "", a |-> <<>>, o |-> members]

Member(k, v) == [k |-> k, v |-> v]

\* Whether object v has a member named key.
HasField(v, key) == \E i \in 1..Len(v.o) : v.o[i].k = key

\* The member of object v that encoding/json stores for key: members are
\* decoded in order, so the last one with that name stays.
Field(v, key) ==
    LET i == CHOOSE j \in 1..Len(v.o) :
                 /\ v.o[j].k = key
                 /\ \A l \in (j + 1)..Len(v.o) : v.o[l].k # key
    IN  v.o[i].v

\* A member that is missing or null leaves the Go field at its zero value.
FieldUnset(v, key) == ~HasField(v, key) \/ Field(v, key).t = "null"

(***************************************************************************)
(* HeartbeatStatus (main.go:34-37) and its decoding.                       *)
(***************************************************************************)
NilPointer == [present |-> FALSE, val |-> 0]

PointerTo(x) == [present |-> TRUE, val |-> x]

HeartbeatStatus(sls, lad) == [SinceLastSuccess |-> sls, LastAckDuration |-> lad]

\* The zero value of HeartbeatStatus: what `var heartbeatStatus` holds and
\* what a map lookup of a missing key returns.
ZeroStatus == HeartbeatStatus(0, NilPointer)

\* json.Unmarshal(valueBytes, &heartbeatStatus), main.go:102-103.  valueBytes
\* is json.Marshal of the decoded entry[1], which encodes the same JSON value.
UnmarshalHeartbeatStatus(v) ==
    IF v.t = "null" THEN [err |-> FALSE, val |-> ZeroStatus]
    ELSE IF v.t # "obj" THEN [err |-> TRUE, val |-> ZeroStatus]
    ELSE LET slsBad == ~FieldUnset(v, "since_last_success")
                         /\ Field(v, "since_last_success").t # "num"
             ladBad == ~FieldUnset(v, "last_ack_duration")
                         /\ Field(v, "last_ack_duration").t # "num"
             sls == IF FieldUnset(v, "since_last_success") \/ slsBad THEN 0
                    ELSE Field(v, "since_last_success").n
             lad == IF FieldUnset(v, "last_ack_duration") \/ ladBad THEN NilPointer
                    ELSE PointerTo(Field(v, "last_ack_duration").n)
         IN  [err |-> slsBad \/ ladBad, val |-> HeartbeatStatus(sls, lad)]

(***************************************************************************)
(* ValidatorData.UnmarshalJSON (main.go:70-111).                           *)
(***************************************************************************)
EmptyMap == [k \in {} |-> ZeroStatus]

\* vd.HeartbeatStatuses[key] = heartbeatStatus
MapSet(m, key, val) ==
    [k \in DOMAIN m \cup {key} |-> IF k = key THEN val ELSE m[k]]

\* Decoding into []interface{}: an array gives its elements, null gives nil.
InterfaceSlice(v) == IF v.t = "arr" THEN v.a ELSE <<>>

\* Whether the JSON value decodes into the auxiliary struct of main.go:73-78
\* without error (main.go:81): home_validator a string,
\* validators_missing_heartbeat an array of strings, heartbeat_statuses an
\* array of arrays; null is accepted wherever a value is expected.
AuxDecodes(v) ==
    \/ v.t = "null"
    \/ /\ v.t = "obj"
       /\ \/ FieldUnset(v, "home_validator")
          \/ Field(v, "home_validator").t = "str"
       /\ \/ FieldUnset(v, "validators_missing_heartbeat")
          \/ LET l == Field(v, "validators_missing_heartbeat")
             IN  /\ l.t = "arr"
                 /\ \A i \in 1..Len(l.a) : l.a[i].t = "str"
       /\ \/ FieldUnset(v, "heartbeat_statuses")
          \/ LET l == Field(v, "heartbeat_statuses")
             IN  /\ l.t = "arr"
                 /\ \A i \in 1..Len(l.a) : l.a[i].t \in {"arr", "null"}

\* aux.HeartbeatStatuses after main.go:81.
AuxHeartbeatStatuses(v) ==
    IF v.t = "null" \/ FieldUnset(v, "heartbeat_statuses") THEN <<>>
    ELSE LET l == Field(v, "heartbeat_statuses")
         IN  [i \in 1..Len(l.a) |-> InterfaceSlice(l.a[i])]

\* A mutant of ConvertEntry: the key's type is not checked.
ConvertEntryAnyKey(m, entry) ==
    IF Len(entry) # 2 THEN m
    ELSE LET st == UnmarshalHeartbeatStatus(entry[2])
         IN  IF st.err THEN m ELSE MapSet(m, entry[1].s, st.val)

\* One iteration of the loop of main.go:87-108 on the map built so far.
ConvertEntry(m, entry) ==
    IF Len(entry) # 2 THEN m
    ELSE IF entry[1].t # "str" THEN m
    ELSE LET st == UnmarshalHeartbeatStatus(entry[2])
         IN  IF st.err THEN m ELSE MapSet(m, entry[1].s, st.val)

RECURSIVE ConvertEntries(_, _, _)
ConvertEntries(entries, i, m) ==
    IF i > Len(entries) THEN m
    ELSE ConvertEntries(entries, i + 1, ConvertEntry(m, entries[i]))

\* json.Unmarshal(validatorDataBytes, &validatorData) of main.go:167, which
\* calls UnmarshalJSON with the bytes, also when they are null.  res is "ok",
\* "err" (main.go:81-83) or "panic": for null, json.Unmarshal(data, &aux)
\* sets the pointer aux to nil and main.go:87 reads aux.HeartbeatStatuses
\* through it.
UnmarshalJSON(v) ==
    IF v.t = "null" THEN [res |-> "panic", HeartbeatStatuses |-> EmptyMap]
    ELSE IF ~AuxDecodes(v) THEN [res |-> "err", HeartbeatStatuses |-> EmptyMap]
    ELSE [res |-> "ok",
          HeartbeatStatuses |-> ConvertEntries(AuxHeartbeatStatuses(v), 1, EmptyMap)]

(***************************************************************************)
(* processLogEntry (main.go:190-203): the decision and the message.        *)
(***************************************************************************)
SinceLastSuccessLimit == 4000

LastAckDurationLimit == 2

\* status, found := logEntry.Validator.HeartbeatStatuses[config.ValidatorAddress]
Found(hs, address) == address \in DOMAIN hs

Lookup(hs, address) == IF Found(hs, address) THEN hs[address] ELSE ZeroStatus

\* A mutant of FoundAlerts: a nil last_ack_duration is read as zero.
FoundAlertsNilAsZero(status) ==
    \/ status.SinceLastSuccess > SinceLastSuccessLimit
    \/ status.LastAckDuration.val > LastAckDurationLimit

\* The condition of main.go:193.
FoundAlerts(status) ==
    \/ status.SinceLastSuccess > SinceLastSuccessLimit
    \/ (status.LastAckDuration.present
          /\ status.LastAckDuration.val > LastAckDurationLimit)
    \/ ~status.LastAckDuration.present

\* A mutant of NotFoundOutcome: the two operands of || are swapped, so the
\* nil pointer is dereferenced first.
NotFoundOutcomeSwapped(status) ==
    IF ~status.LastAckDuration.present THEN "panic"
    ELSE IF status.LastAckDuration.val <= 0 THEN "alert"
    ELSE IF status.SinceLastSuccess <= 0 THEN "alert"
    ELSE "none"

\* The condition of main.go:198, evaluated left to right: || does not
\* evaluate *status.LastAckDuration when its left operand is true, and
\* dereferencing a nil pointer panics.
NotFoundOutcome(status) ==
    IF status.SinceLastSuccess <= 0 THEN "alert"
    ELSE IF ~status.LastAckDuration.present THEN "panic"
    ELSE IF status.LastAckDuration.val <= 0 THEN "alert"
    ELSE "none"

\* "alert", "none" or "panic" for a snapshot's map and the configured address.
Outcome(hs, address) ==
    IF Found(hs, address)
    THEN IF FoundAlerts(Lookup(hs, address)) THEN "alert" ELSE "none"
    ELSE NotFoundOutcome(Lookup(hs, address))

\* fmt's %v of a *float64: the address the pointer holds, or <nil>.
FormatPointer(p) == IF p.present THEN "0xc000012345" ELSE "<nil>"

\* fmt.Sprintf of main.go:194 and main.go:199, as the values it embeds.
AlertMessage(address, status) ==
    [address |-> address,
     since_last_success |-> status.SinceLastSuccess,
     last_ack_duration |-> FormatPointer(status.LastAckDuration)]

NoMessage == [address |-> "", since_last_success |-> 0, last_ack_duration |-> ""]

(***************************************************************************)
(* File names are Go strings, modelled as sequences of byte values so that *)
(* they can be ordered: 45 is '-', 48..57 are '0'..'9', 97 is 'a'.         *)
(***************************************************************************)
\* Go's < on strings: bytewise lexicographic order.
RECURSIVE StrLess(_, _)
StrLess(x, y) ==
    IF y = <<>> THEN FALSE
    ELSE IF x = <<>> THEN TRUE
    ELSE IF x[1] # y[1] THEN x[1] < y[1]
    ELSE StrLess(Tail(x), Tail(y))

IsDigit(c) == c >= 48 /\ c <= 57

RECURSIVE DigitsValue(_, _)
DigitsValue(x, acc) ==
    IF x = <<>> THEN acc ELSE DigitsValue(Tail(x), acc * 10 + (x[1] - 48))

\* strconv.Atoi for names short enough not to overflow: an optional sign
\* followed by at least one digit and nothing else.
Atoi(x) ==
    LET signed == x # <<>> /\ x[1] \in {43, 45}
        digits == IF signed THEN Tail(x) ELSE x
        ok     == digits # <<>> /\ \A i \in 1..Len(digits) : IsDigit(digits[i])
    IN  IF ~ok THEN [err |-> TRUE, val |-> 0]
        ELSE [err |-> FALSE,
              val |-> IF signed /\ x[1] = 45 THEN 0 - DigitsValue(digits, 0)
                      ELSE DigitsValue(digits, 0)]

\* A directory is a set of entries [name, isDir] with distinct names.
\* os.ReadDir returns the entries sorted by file name.
RECURSIVE ReadDir(_)
ReadDir(dir) ==
    IF dir = {} THEN <<>>
    ELSE LET first == CHOOSE e \in dir : \A f \in dir \ {e} : StrLess(e.name, f.name)
         IN  <<first>> \o ReadDir(dir \ {first})

\* The names of the directories (wantDir) or of the other entries, in order.
RECURSIVE EntryNames(_, _)
EntryNames(entries, wantDir) ==
    IF entries = <<>> THEN <<>>
    ELSE (IF entries[1].isDir = wantDir THEN <<entries[1].name>> ELSE <<>>)
             \o EntryNames(Tail(entries), wantDir)

\* A mutant of Later: the first directory read is kept.
LaterNever(dir, latestDir) == FALSE

\* dir > latestDir, main.go:238.
Later(dir, latestDir) == StrLess(latestDir, dir)

\* The loop of main.go:236-241.
RECURSIVE LatestOf(_, _)
LatestOf(dirs, latestDir) ==
    IF dirs = <<>> THEN latestDir
    ELSE LatestOf(Tail(dirs), IF Later(dirs[1], latestDir) THEN dirs[1] ELSE latestDir)

\* findLatestDir (main.go:219-244) on the listing of basePath.  A path is
\* the sequence of its components.
FindLatestDir(basePath, dir) ==
    LET dirs == EntryNames(ReadDir(dir), TRUE)
    IN  IF dirs = <<>> THEN [err |-> TRUE, path |-> <<>>]
        ELSE [err |-> FALSE, path |-> Append(basePath, LatestOf(dirs, dirs[1]))]

\* A comparator that always compares names as strings.
LessLexicographic(x, y) == StrLess(x, y)

\* The less function of main.go:263-270.
Less(x, y) ==
    IF ~Atoi(x).err /\ ~Atoi(y).err THEN Atoi(x).val < Atoi(y).val
    ELSE StrLess(x, y)

Swap(files, i, j) == [files EXCEPT ![i] = files[j], ![j] = files[i]]

\* sort.Slice on a slice of at most six elements is an insertion
\* sort: the inner loop moves files[j] down while it is less than files[j-1].
RECURSIVE SiftDown(_, _)
SiftDown(files, j) ==
    IF j > 1 /\ Less(files[j], files[j - 1])
    THEN SiftDown(Swap(files, j, j - 1), j - 1)
    ELSE files

RECURSIVE InsertionSort(_, _)
InsertionSort(files, i) ==
    IF i > Len(files) THEN files ELSE InsertionSort(SiftDown(files, i), i + 1)

\* A selection of the first file of the sorted listing instead of the last.
FindLatestFileFirst(dirPath, dir) ==
    LET files  == EntryNames(ReadDir(dir), FALSE)
        sorted == InsertionSort(files, 2)
    IN  IF files = <<>> THEN [err |-> TRUE, path |-> <<>>]
        ELSE [err |-> FALSE, path |-> Append(dirPath, sorted[1])]

\* findLatestFile (main.go:245-275) on the listing of dirPath.
FindLatestFile(dirPath, dir) ==
    LET files  == EntryNames(ReadDir(dir), FALSE)
        sorted == InsertionSort(files, 2)
    IN  IF files = <<>> THEN [err |-> TRUE, path |-> <<>>]
        ELSE [err |-> FALSE, path |-> Append(dirPath, sorted[Len(sorted)])]

\* The listing of the directory at path in the file system f: f.base lists
\* the base path, f.sub[d] the subdirectory named d.
Listing(f, path) == f.sub[path[Len(path)]]

\* findLatestLogFile (main.go:205-217).
FindLatestLogFile(basePath, f) ==
    LET latestDateDir == FindLatestDir(basePath, f.base)
    IN  IF latestDateDir.err THEN [err |-> TRUE, path |-> <<>>]
        ELSE FindLatestFile(latestDateDir.path, Listing(f, latestDateDir.path))

(***************************************************************************)
(* The log file: a stream of JSON values.  An item is a complete value, a  *)
(* text that is not valid JSON, or a value cut off by the end of the file. *)
(***************************************************************************)
Value(v) == [kind |-> "value", v |-> v]

SyntaxError == [kind |-> "syntax", v |-> JNull]

Truncated == [kind |-> "truncated", v |-> JNull]

\* One call of decoder.Decode(&rawEntry), main.go:137, on the file f with p
\* values consumed and the decoder's stored error e.  The decoder keeps the
\* first error of its scanner or reader and returns it from then on.
DecoderDecode(f, p, e) ==
    IF e # "" THEN [err |-> e, pos |-> p, raw |-> JNull]
    ELSE IF p = Len(f) THEN [err |-> "EOF", pos |-> p, raw |-> JNull]
    ELSE IF f[p + 1].kind = "syntax"
         THEN [err |-> "invalid character", pos |-> p, raw |-> JNull]
    ELSE IF f[p + 1].kind = "truncated"
         THEN [err |-> "unexpected EOF", pos |-> p, raw |-> JNull]
    ELSE [err |-> "", pos |-> p + 1, raw |-> f[p + 1].v]

\* json.RawMessage: nil, or the bytes of a value.
NilRaw == [set |-> FALSE, v |-> JNull]

Raw(v) == [set |-> TRUE, v |-> v]

\* A mutant of Retain: the first value decoded is kept.
RetainFirst(last, rawEntry) == IF last.set THEN last ELSE Raw(rawEntry)

\* lastRawEntry = rawEntry, main.go:144.
Retain(last, rawEntry) == Raw(rawEntry)

\* json.Unmarshal(lastRawEntry, &logArray) == nil, main.go:152.
LogArrayDecodes(v) == v.t \in {"arr", "null"}

\* A mutant of TimestampOK: the type assertion is not checked.
TimestampUnchecked(logArray) == TRUE

\* timestamp, ok := logArray[0].(string), main.go:154.
TimestampOK(logArray) == logArray[1].t = "str"

\* The zero value of LogArrayEntry, as far as the program reads it.
NoEntry == [Timestamp |-> "", HeartbeatStatuses |-> EmptyMap]

\* What main.go:147-183 does with the retained entry: "skip" (nothing
\* retained), "badshape" (main.go:181), "continue" (main.go:157, 169),
\* "panic", or "process" with the snapshot passed to processLogEntry.
Retained(last) ==
    LET logArray == InterfaceSlice(last.v)
        decoded  == UnmarshalJSON(logArray[2])
        none     == NoEntry
    IN  IF ~last.set THEN [do |-> "skip", entry |-> none]
        ELSE IF ~(LogArrayDecodes(last.v) /\ Len(logArray) = 2)
             THEN [do |-> "badshape", entry |-> none]
        ELSE IF ~TimestampOK(logArray) THEN [do |-> "continue", entry |-> none]
        ELSE IF decoded.res = "panic" THEN [do |-> "panic", entry |-> none]
        ELSE IF decoded.res = "err" THEN [do |-> "continue", entry |-> none]
        ELSE [do |-> "process",
              entry |-> [Timestamp |-> logArray[1].s,
                         HeartbeatStatuses |-> decoded.HeartbeatStatuses]]

(***************************************************************************)
(* Bounds and the inputs drawn within them.                                *)
(***************************************************************************)
MaxLines == 2

MaxHandles == 3

MaxPairs == 3

MaxEntries == 3

SeqsUpTo(S, n) == UNION {[1..k -> S] : k \in 0..n}

StatusObject(sls, lad) ==
    JObj(<<Member("since_last_success", JNum(sls)), Member("last_ack_duration", lad)>>)

Pair(address, status) == JArr(<<JStr(address), status>>)

Data(pairs) ==
    JObj(<<Member("home_validator", JStr("0xH")),
           Member("validators_missing_heartbeat", JArr(<<JStr("0xB")>>)),
           Member("heartbeat_statuses", JArr(pairs))>>)

Line(timestamp, data) == JArr(<<timestamp, data>>)

Healthy == Data(<<Pair("0xA", StatusObject(1000, JNum(1)))>>)

Late == Data(<<Pair("0xA", StatusObject(4100, JNum(1)))>>)

Others == Data(<<Pair("0xB", StatusObject(1000, JNum(1)))>>)

Items ==
    { Value(Line(JStr("t1"), Healthy)),
      Value(Line(JStr("t2"), Late)),
      Value(Line(JStr("t3"), Others)),
      Value(Line(JNum(7), Late)),
      Value(Line(JStr("t4"), JNum(5))),
      Value(Line(JStr("t5"), JNull)),
      Value(JArr(<<JStr("t6")>>)),
      Value(JArr(<<JStr("t7"), Late, JNum(1)>>)),
      Value(JObj(<<>>)),
      Value(JNull),
      SyntaxError,
      Truncated }

\* Only the end of the file can cut a value off.
Files ==
    {f \in SeqsUpTo(Items, MaxLines) :
        \A i \in 1..Len(f) : f[i].kind = "truncated" => i = Len(f)}

BasePath == <<<<108, 111, 103, 115>>>>

Dir(name) == [name |-> name, isDir |-> TRUE]

PlainFile(name) == [name |-> name, isDir |-> FALSE]

Day1 == <<50, 48, 50, 52, 45, 48, 49, 45, 48, 49>>

Day2 == <<50, 48, 50, 52, 45, 48, 49, 45, 48, 50>>

Day0 == <<50, 48, 50, 51, 45, 49, 50, 45, 51, 49>>

N2 == <<50>>

N9 == <<57>>

N10 == <<49, 48>>

Abc == <<97, 98, 99>>

\* The file systems the program is started on: a usual layout, a base path
\* without subdirectories, and a latest directory without files.
FileSystems ==
    { [base |-> {Dir(Day1), Dir(Day2), Dir(Day0), PlainFile(N9)},
       sub  |-> [d \in {Day0, Day1, Day2} |->
                    IF d = Day2 THEN {PlainFile(N2), PlainFile(N9), PlainFile(N10), Dir(Abc)}
                    ELSE {PlainFile(N9)}]],
      [base |-> {PlainFile(N9)}, sub |-> [d \in {} |-> {}]],
      [base |-> {Dir(Day1)}, sub |-> [d \in {Day1} |-> {Dir(Abc)}]] }

CheckIntervals == {5, 60}

Configs ==
    [ValidatorAddress : {"0xA"}, CheckInterval : CheckIntervals, BasePath : {BasePath}]

(***************************************************************************)
(* main (main.go:112-188) and processLogEntry, one action per blocking     *)
(* call or stretch of computation between two of them.                     *)
(***************************************************************************)
alertVars == <<logEntry, alertMessage, alerts, evaluated>>

decoderVars == <<file, pos, decErr, lastRawEntry, errLines>>

Init ==
    /\ pc = "start"
    /\ config \in Configs
    /\ fs \in FileSystems
    /\ latestLogFile = <<>>
    /\ file = <<>>
    /\ pos = 0
    /\ decErr = ""
    /\ lastRawEntry = NilRaw
    /\ handles = 0
    /\ logEntry = NoEntry
    /\ alertMessage = NoMessage
    /\ alerts = <<>>
    /\ evaluated = <<>>
    /\ lastAttempt = "none"
    /\ lastSleep = 0
    /\ openedPath = <<>>
    /\ alertedBefore = FALSE
    /\ errLines = 0
    /\ input = <<>>
    /\ output = <<>>

\* main.go:120-124: locate the file, or log.Fatalf.
Startup ==
    /\ pc = "start"
    /\ LET found == FindLatestLogFile(config.BasePath, fs)
       IN  /\ pc' = IF found.err THEN "exit" ELSE "open"
           /\ latestLogFile' = found.path
    /\ UNCHANGED <<config, openedPath, alertedBefore, fs, handles, lastAttempt, lastSleep, input, output>>
    /\ UNCHANGED alertVars
    /\ UNCHANGED decoderVars

\* A mutant of OpenFile: the latest log file is located again at each open.
OpenFileRelocating ==
    /\ pc = "open"
    /\ handles < MaxHandles
    /\ \E f \in Files : file' = f
    /\ pos' = 0
    /\ decErr' = ""
    /\ lastRawEntry' = NilRaw
    /\ errLines' = 0
    /\ handles' = handles + 1
    /\ lastAttempt' = "ok"
    /\ lastSleep' = 0
    /\ latestLogFile' = FindLatestLogFile(config.BasePath, fs).path
    /\ openedPath' = latestLogFile'
    /\ pc' = "decode"
    /\ UNCHANGED <<config, alertedBefore, fs, input, output>>
    /\ UNCHANGED alertVars

\* os.Open succeeds (main.go:126) and the cycle's decoder and lastRawEntry
\* are created (main.go:133-134).  The file holds whatever its writer has
\* put there by now.
OpenFile ==
    /\ pc = "open"
    /\ handles < MaxHandles
    /\ \E f \in Files : file' = f
    /\ pos' = 0
    /\ decErr' = ""
    /\ lastRawEntry' = NilRaw
    /\ errLines' = 0
    /\ handles' = handles + 1
    /\ lastAttempt' = "ok"
    /\ lastSleep' = 0
    /\ openedPath' = latestLogFile
    /\ pc' = "decode"
    /\ UNCHANGED <<config, alertedBefore, fs, latestLogFile, input, output>>
    /\ UNCHANGED alertVars

\* os.Open fails (main.go:127-128): the file is missing or unreadable, or
\* the process has no file descriptor left.
OpenFileFails ==
    /\ pc = "open"
    /\ lastAttempt' = "fail"
    /\ lastSleep' = 0
    /\ openedPath' = latestLogFile
    /\ pc' = "backoff"
    /\ UNCHANGED <<config, alertedBefore, fs, latestLogFile, handles, input, output>>
    /\ UNCHANGED alertVars
    /\ UNCHANGED decoderVars

BackoffSeconds == 30

\* A mutant of BackoffDuration: the configured interval is slept.
BackoffDurationConfigured(cfg) == cfg.CheckInterval

\* The duration of main.go:129, in seconds.
BackoffDuration(cfg) == BackoffSeconds

\* time.Sleep(30 * time.Second); continue (main.go:129-130).
Backoff ==
    /\ pc = "backoff"
    /\ lastSleep' = BackoffDuration(config)
    /\ pc' = "open"
    /\ UNCHANGED <<config, openedPath, alertedBefore, fs, latestLogFile, handles, lastAttempt, input, output>>
    /\ UNCHANGED alertVars
    /\ UNCHANGED decoderVars

\* One iteration of the loop of main.go:135-145.
Decode ==
    /\ pc = "decode"
    /\ LET r == DecoderDecode(file, pos, decErr)
       IN  /\ pos' = r.pos
           /\ decErr' = IF r.err # "" THEN r.err ELSE decErr
           /\ IF r.err = "EOF"
              THEN /\ pc' = "retained"
                   /\ UNCHANGED <<lastRawEntry, errLines>>
              ELSE IF r.err # ""
              THEN /\ errLines' = 1 - errLines
                   /\ pc' = "decode"
                   /\ UNCHANGED lastRawEntry
              ELSE /\ lastRawEntry' = Retain(lastRawEntry, r.raw)
                   /\ pc' = "decode"
                   /\ UNCHANGED errLines
    /\ UNCHANGED <<config, openedPath, alertedBefore, fs, latestLogFile, file, handles, lastAttempt, lastSleep,
                   input, output>>
    /\ UNCHANGED alertVars

\* main.go:147-183 up to the call of processLogEntry or to a continue
\* statement.
EvaluateRetained ==
    /\ pc = "retained"
    /\ LET r == Retained(lastRawEntry)
       IN  /\ pc' = CASE r.do = "process"  -> "process"
                      [] r.do = "continue" -> "continue"
                      [] r.do = "panic"    -> "crashed"
                      [] OTHER             -> "close"
           /\ logEntry' = IF r.do = "process" THEN r.entry ELSE logEntry
           /\ evaluated' = IF r.do = "process" THEN Append(evaluated, r.entry)
                           ELSE evaluated
    /\ UNCHANGED <<config, openedPath, alertedBefore, fs, latestLogFile, handles, alertMessage, alerts,
                   lastAttempt, lastSleep, input, output>>
    /\ UNCHANGED decoderVars

\* The end of an iteration of the outer loop: the variables declared in its
\* body (file, decoder, lastRawEntry, logEntry, ...) are gone.
EndIteration ==
    /\ file' = <<>>
    /\ pos' = 0
    /\ decErr' = ""
    /\ lastRawEntry' = NilRaw
    /\ errLines' = 0
    /\ logEntry' = NoEntry
    /\ alertMessage' = NoMessage
    /\ alerts' = <<>>
    /\ evaluated' = <<>>

\* The continue statements of main.go:157, 163 and 169.  The loop they
\* continue is the outer one, the inner one having ended at main.go:145:
\* the next statement is os.Open of main.go:126.
Continue ==
    /\ pc = "continue"
    /\ EndIteration
    /\ pc' = "open"
    /\ UNCHANGED <<config, openedPath, alertedBefore, fs, latestLogFile, handles, lastAttempt, lastSleep,
                   input, output>>

\* A mutant of ProcessLogEntry: an alert is suppressed once an earlier
\* cycle has alerted.
ProcessLogEntryDeduplicating ==
    /\ pc = "process"
    /\ LET hs     == logEntry.HeartbeatStatuses
           status == Lookup(hs, config.ValidatorAddress)
           what   == IF alertedBefore /\ Outcome(hs, config.ValidatorAddress) = "alert"
                     THEN "none"
                     ELSE Outcome(hs, config.ValidatorAddress)
       IN  /\ pc' = CASE what = "alert" -> "slack"
                      [] what = "panic" -> "crashed"
                      [] OTHER          -> "close"
           /\ alertMessage' = IF what = "alert"
                              THEN AlertMessage(config.ValidatorAddress, status)
                              ELSE alertMessage
    /\ UNCHANGED <<config, openedPath, alertedBefore, fs, latestLogFile, handles,
                   logEntry, alerts, evaluated, lastAttempt, lastSleep, input, output>>
    /\ UNCHANGED decoderVars

\* processLogEntry up to its first notifier call (main.go:191-194, 198-199).
ProcessLogEntry ==
    /\ pc = "process"
    /\ LET hs     == logEntry.HeartbeatStatuses
           status == Lookup(hs, config.ValidatorAddress)
           what   == Outcome(hs, config.ValidatorAddress)
       IN  /\ pc' = CASE what = "alert" -> "slack"
                      [] what = "panic" -> "crashed"
                      [] OTHER          -> "close"
           /\ alertMessage' = IF what = "alert"
                              THEN AlertMessage(config.ValidatorAddress, status)
                              ELSE alertMessage
    /\ UNCHANGED <<config, openedPath, alertedBefore, fs, latestLogFile, handles, logEntry, alerts, evaluated,
                   lastAttempt, lastSleep, input, output>>
    /\ UNCHANGED decoderVars

\* A mutant of SendSlackAlert: a failed post is tried again.
SendSlackAlertRetrying ==
    /\ pc = "slack"
    /\ \E ok \in BOOLEAN :
          /\ alerts' = Append(alerts, [channel |-> "slack", message |-> alertMessage,
                                       ok |-> ok])
          /\ pc' = IF ok \/ Len(alerts) >= 2 THEN "pagerduty" ELSE "slack"
    /\ UNCHANGED <<config, openedPath, alertedBefore, fs, latestLogFile, handles, logEntry, alertMessage,
                   evaluated, lastAttempt, lastSleep, input, output>>
    /\ UNCHANGED decoderVars

\* sendSlackAlert (main.go:44-52), called at main.go:195 and 200: one post,
\* its error logged.
SendSlackAlert ==
    /\ pc = "slack"
    /\ \E ok \in BOOLEAN :
          alerts' = Append(alerts, [channel |-> "slack", message |-> alertMessage,
                                    ok |-> ok])
    /\ pc' = "pagerduty"
    /\ UNCHANGED <<config, openedPath, alertedBefore, fs, latestLogFile, handles, logEntry, alertMessage,
                   evaluated, lastAttempt, lastSleep, input, output>>
    /\ UNCHANGED decoderVars

\* sendPagerDutyAlert (main.go:54-69), called at main.go:196 and 201: one
\* trigger event, its error logged.
SendPagerDutyAlert ==
    /\ pc = "pagerduty"
    /\ \E ok \in BOOLEAN :
          alerts' = Append(alerts, [channel |-> "pagerduty", message |-> alertMessage,
                                    ok |-> ok])
    /\ pc' = "close"
    /\ UNCHANGED <<config, openedPath, alertedBefore, fs, latestLogFile, handles, logEntry, alertMessage,
                   evaluated, lastAttempt, lastSleep, input, output>>
    /\ UNCHANGED decoderVars

\* file.Close(), main.go:185.
CloseFile ==
    /\ pc = "close"
    /\ handles' = handles - 1
    /\ pc' = "sleep"
    /\ UNCHANGED <<config, openedPath, alertedBefore, fs, latestLogFile, lastAttempt, lastSleep, input, output>>
    /\ UNCHANGED alertVars
    /\ UNCHANGED decoderVars

\* time.Sleep(time.Duration(config.CheckInterval) * time.Second), main.go:186.
Sleep ==
    /\ pc = "sleep"
    /\ lastSleep' = config.CheckInterval
    /\ alertedBefore' = (alertedBefore \/ alerts # <<>>)
    /\ EndIteration
    /\ pc' = "open"
    /\ UNCHANGED <<config, openedPath, fs, latestLogFile, handles, lastAttempt, input, output>>

\* The handle of the running cycle is the one main's variable file holds.
InCycle ==
    pc \in {"decode", "retained", "continue", "process", "slack", "pagerduty", "close"}

Leaked == handles - (IF InCycle THEN 1 ELSE 0)

\* The garbage collector runs the finalizer of an *os.File that main no
\* longer refers to (main.go:126 overwrote it), which closes it.
Finalize ==
    /\ pc \notin {"start", "exit", "crashed"}
    /\ Leaked > 0
    /\ handles' = handles - 1
    /\ UNCHANGED <<pc, config, openedPath, alertedBefore, fs, latestLogFile, lastAttempt, lastSleep, input, output>>
    /\ UNCHANGED alertVars
    /\ UNCHANGED decoderVars

\* The directory that the node starts writing to after this program started.
Day3 == <<50, 48, 50, 52, 45, 48, 49, 45, 48, 51>>

NewerDirectory(f) ==
    [base |-> f.base \cup {Dir(Day3)},
     sub  |-> [d \in DOMAIN f.sub \cup {Day3} |->
                  IF d = Day3 THEN {PlainFile(N2)} ELSE f.sub[d]]]

\* The node that writes the logs begins a new directory and file while the
\* program is in its loop.
NodeRotatesLog ==
    /\ pc \notin {"start", "exit", "crashed"}
    /\ Dir(Day3) \notin fs.base
    /\ fs' = NewerDirectory(fs)
    /\ UNCHANGED <<pc, config, openedPath, alertedBefore, latestLogFile, handles,
                   lastAttempt, lastSleep, input, output>>
    /\ UNCHANGED alertVars
    /\ UNCHANGED decoderVars

Next ==
    \/ Startup
    \/ OpenFile
    \/ OpenFileFails
    \/ Backoff
    \/ Decode
    \/ EvaluateRetained
    \/ Continue
    \/ ProcessLogEntry
    \/ SendSlackAlert
    \/ SendPagerDutyAlert
    \/ CloseFile
    \/ Sleep
    \/ Finalize
    \/ NodeRotatesLog

Spec == Init /\ [][Next]_vars

\* The process is the only thread: once it has opened the file it executes
\* the statements of the cycle one after the other.  Nothing is assumed of
\* the outside world: the notifier calls, os.Open and the garbage collector.
FairSpec ==
    /\ Spec
    /\ WF_vars(Decode)
    /\ WF_vars(EvaluateRetained)
    /\ WF_vars(Continue)
    /\ WF_vars(ProcessLogEntry)
    /\ WF_vars(CloseFile)
    /\ WF_vars(Sleep)

(***************************************************************************)
(* The poll loop: what is retained, what is evaluated, when it sleeps.     *)
(***************************************************************************)
\* C2: once the line-reading loop of a cycle has started it finishes,
\* whatever the file holds.
LineLoopFinishes == (pc = "decode") ~> (pc # "decode")

ArrayShaped(v) == v.t = "arr" /\ Len(v.a) = 2

\* The last value of the file, as a raw message; nil for an empty file.
LastValue(f) == IF f = <<>> THEN NilRaw ELSE Raw(f[Len(f)].v)

\* The last 2-element array of the file, as a raw message; nil without one.
LastArrayShaped(f) ==
    LET shaped == {i \in 1..Len(f) : f[i].kind = "value" /\ ArrayShaped(f[i].v)}
    IN  IF shaped = {} THEN NilRaw
        ELSE Raw(f[CHOOSE i \in shaped : \A j \in shaped : j <= i].v)

\* The evaluations of a cycle that retains the raw message raw.
EvaluationsOf(raw) ==
    IF Retained(raw).do = "process" THEN <<Retained(raw).entry>> ELSE <<>>

AfterEvaluation == pc \in {"process", "slack", "pagerduty", "close", "sleep"}

\* C3 as stated: what a cycle evaluates is the last 2-element array of the
\* file, also when other valid JSON values follow it.
EvaluatesLastArrayLine ==
    AfterEvaluation => evaluated = EvaluationsOf(LastArrayShaped(file))

\* C3 as amended: a cycle evaluates at most one record, and it is the last
\* JSON value of the file, which then is a 2-element array with a string
\* first; a cycle whose last value is anything else evaluates nothing.
EvaluatesLastValue ==
    /\ Len(evaluated) <= 1
    /\ AfterEvaluation =>
          /\ \A i \in 1..Len(file) : file[i].kind = "value"
          /\ lastRawEntry = LastValue(file)
          /\ evaluated = EvaluationsOf(LastValue(file))
    /\ evaluated # <<>> =>
          /\ file # <<>>
          /\ ArrayShaped(file[Len(file)].v)
          /\ file[Len(file)].v.a[1] = JStr(evaluated[1].Timestamp)

\* A cycle that evaluated nothing although an evaluable 2-element array
\* precedes the last value of the file.
EvaluatesLastValueWitness ==
    /\ pc = "close"
    /\ Len(file) = 2
    /\ file[1] = Value(Line(JStr("t2"), Late))
    /\ file[2] = Value(JObj(<<>>))
    /\ evaluated = <<>>

\* C4: a failed open leads to the 30 second sleep and back to the open of
\* the same path, with no evaluation and no alert, and ends nothing.
OpenFailureBacksOff ==
    lastAttempt = "fail" =>
        /\ pc \in {"backoff", "open"}
        /\ evaluated = <<>>
        /\ alerts = <<>>
        /\ pc = "backoff" => lastSleep = 0
        /\ pc = "open" => lastSleep = 30 /\ lastSleep # config.CheckInterval
        /\ openedPath = latestLogFile

\* The program about to open again after a failed open, with no handle
\* open.
OpenFailureBacksOffWitness ==
    /\ lastAttempt = "fail"
    /\ pc = "open"
    /\ lastSleep = 30
    /\ handles = 0

\* C5: the file is not opened again after a successful open before the
\* configured interval has been slept.
SleepsBetweenOpens ==
    (pc = "open" /\ lastAttempt = "ok") => lastSleep = config.CheckInterval

\* C6: a retained record that is not a 2-element array with a string first
\* element gives no snapshot: processLogEntry is not called, nothing is sent.
NoSnapshotForBadShape ==
    (/\ lastRawEntry.set
     /\ pc # "decode"
     /\ ~(ArrayShaped(lastRawEntry.v) /\ lastRawEntry.v.a[1].t = "str")) =>
        /\ evaluated = <<>>
        /\ alerts = <<>>
        /\ pc \in {"retained", "continue", "close", "sleep"}

\* A cycle that retained a 2-element array whose first element is a number
\* and has reached its continue statement.
NoSnapshotForBadShapeWitness ==
    /\ lastRawEntry = Raw(Line(JNum(7), Late))
    /\ pc = "continue"

\* C8: an evaluation that decides to alert makes one Slack post and then
\* one PagerDuty trigger with the same message, whatever each call returns,
\* and the loop goes on.
AlertDispatchedOnce ==
    /\ Len(alerts) <= 2
    /\ \A i \in 1..Len(alerts) :
          /\ alerts[i].channel = IF i = 1 THEN "slack" ELSE "pagerduty"
          /\ alerts[i].message = alerts[1].message
    /\ pc = "slack" => alerts = <<>>
    /\ pc = "pagerduty" => Len(alerts) = 1
    /\ alerts # <<>> => pc \in {"pagerduty", "close", "sleep"}
    /\ (/\ pc \in {"close", "sleep"}
        /\ evaluated # <<>>
        /\ Outcome(evaluated[1].HeartbeatStatuses, config.ValidatorAddress) = "alert") =>
          Len(alerts) = 2

\* Both calls failed and the loop is about to sleep.
AlertDispatchedOnceWitness ==
    /\ pc = "sleep"
    /\ Len(alerts) = 2
    /\ ~alerts[1].ok
    /\ ~alerts[2].ok

(***************************************************************************)
(* processLogEntry on its own: one call on every snapshot of a bounded set *)
(***************************************************************************)
SinceLastSuccessValues == {-100, 0, 1000, 4000, 4001, 4100}

LastAckDurations ==
    {NilPointer, PointerTo(-1), PointerTo(0), PointerTo(1), PointerTo(2), PointerTo(3)}

Statuses ==
    {HeartbeatStatus(sls, lad) : sls \in SinceLastSuccessValues, lad \in LastAckDurations}

OtherStatuses == {HeartbeatStatus(1000, PointerTo(1)), HeartbeatStatus(4100, NilPointer)}

\* Maps with an entry for 0xA, for 0xB, for both or for neither.
StatusMaps ==
    {EmptyMap}
        \cup {MapSet(EmptyMap, "0xA", a) : a \in Statuses}
        \cup {MapSet(EmptyMap, "0xB", b) : b \in OtherStatuses}
        \cup {MapSet(MapSet(EmptyMap, "0xA", a), "0xB", b) :
                 a \in Statuses, b \in OtherStatuses}

Snapshots == [Timestamp : {"t1"}, HeartbeatStatuses : StatusMaps]

EvalConfigs ==
    [ValidatorAddress : {"0xA", "0xC"}, CheckInterval : {5}, BasePath : {BasePath}]

InitEval ==
    /\ pc = "process"
    /\ config \in EvalConfigs
    /\ logEntry \in Snapshots
    /\ fs = [base |-> {}, sub |-> [d \in {} |-> {}]]
    /\ latestLogFile = <<>>
    /\ file = <<>>
    /\ pos = 0
    /\ decErr = ""
    /\ lastRawEntry = NilRaw
    /\ handles = 1
    /\ alertMessage = NoMessage
    /\ alerts = <<>>
    /\ evaluated = <<>>
    /\ lastAttempt = "ok"
    /\ lastSleep = 0
    /\ openedPath = <<>>
    /\ alertedBefore = FALSE
    /\ errLines = 0
    /\ input = <<>>
    /\ output = <<>>

NextEval ==
    \/ ProcessLogEntry
    \/ SendSlackAlert
    \/ SendPagerDutyAlert

SpecEval == InitEval /\ [][NextEval]_vars

IsFound == config.ValidatorAddress \in DOMAIN logEntry.HeartbeatStatuses

\* C1: with the configured address in the map, processLogEntry alerts if
\* and only if since_last_success > 40, or last_ack_duration is absent, or
\* it is present and > 0.02; a present 0 is not an absent value.
FoundAlertRule ==
    IsFound =>
        LET status == logEntry.HeartbeatStatuses[config.ValidatorAddress]
            sls    == status.SinceLastSuccess
            lad    == status.LastAckDuration
            rule   == \/ sls > 4000
                      \/ ~lad.present
                      \/ (lad.present /\ lad.val > 2)
        IN  /\ pc # "crashed"
            /\ pc \in {"slack", "pagerduty"} => rule
            /\ alerts # <<>> => rule
            /\ pc = "close" => (rule <=> Len(alerts) = 2)
            /\ (pc = "close" /\ sls = 1000 /\ lad \in {PointerTo(0), PointerTo(1)})
                  => alerts = <<>>
            /\ (pc = "close" /\ sls = 1000 /\ lad = NilPointer) => alerts # <<>>

\* A finished call that did not alert on a present last_ack_duration of 0.
FoundAlertRuleWitness ==
    /\ pc = "close"
    /\ IsFound
    /\ logEntry.HeartbeatStatuses[config.ValidatorAddress]
          = HeartbeatStatus(1000, PointerTo(0))
    /\ alerts = <<>>

\* C7: without the configured address in the map, processLogEntry does not
\* crash and always alerts.
NotFoundAlwaysAlerts ==
    ~IsFound =>
        /\ pc # "crashed"
        /\ pc = "close" => Len(alerts) = 2

\* A finished call that alerted on a map with other validators only.
NotFoundAlwaysAlertsWitness ==
    /\ pc = "close"
    /\ ~IsFound
    /\ DOMAIN logEntry.HeartbeatStatuses # {}
    /\ Len(alerts) = 2

(***************************************************************************)
(* ValidatorData.UnmarshalJSON on its own: one call on every sequence of   *)
(* heartbeat_statuses pairs of a bounded set.                              *)
(***************************************************************************)
Pairs ==
    { Pair("0xA", StatusObject(1000, JNum(1))),
      Pair("0xA", StatusObject(4100, JNull)),
      Pair("0xB", StatusObject(1000, JNum(0))),
      Pair("0xB", JNull),
      Pair("0xC", JNum(7)),
      Pair("0xC", JObj(<<Member("since_last_success", JStr("late"))>>)),
      JArr(<<JNum(1), StatusObject(1000, JNum(1))>>),
      JArr(<<JStr("0xD")>>),
      JArr(<<JStr("0xD"), StatusObject(1000, JNum(1)), JNum(1)>>),
      JNull }

NoResult == [res |-> "", HeartbeatStatuses |-> EmptyMap]

InitUnmarshal ==
    /\ pc = "unmarshal"
    /\ input \in SeqsUpTo(Pairs, MaxPairs)
    /\ output = NoResult
    /\ config \in EvalConfigs
    /\ fs = [base |-> {}, sub |-> [d \in {} |-> {}]]
    /\ latestLogFile = <<>>
    /\ file = <<>>
    /\ pos = 0
    /\ decErr = ""
    /\ lastRawEntry = NilRaw
    /\ handles = 1
    /\ logEntry = NoEntry
    /\ alertMessage = NoMessage
    /\ alerts = <<>>
    /\ evaluated = <<>>
    /\ lastAttempt = "ok"
    /\ lastSleep = 0
    /\ openedPath = <<>>
    /\ alertedBefore = FALSE
    /\ errLines = 0

\* json.Unmarshal(validatorDataBytes, &validatorData), main.go:167, on a
\* validator object whose heartbeat_statuses is the input.
ApplyUnmarshalJSON ==
    /\ pc = "unmarshal"
    /\ output' = UnmarshalJSON(Data(input))
    /\ pc' = "done"
    /\ UNCHANGED <<config, openedPath, alertedBefore, fs, latestLogFile, handles, lastAttempt, lastSleep, input>>
    /\ UNCHANGED alertVars
    /\ UNCHANGED decoderVars

SpecUnmarshal == InitUnmarshal /\ [][ApplyUnmarshalJSON]_vars

\* A pair of length 2 with a string first element and a second element that
\* decodes as a HeartbeatStatus.
ValidPair(p) ==
    /\ p.t = "arr"
    /\ Len(p.a) = 2
    /\ p.a[1].t = "str"
    /\ ~UnmarshalHeartbeatStatus(p.a[2]).err

ValidIndexes == {i \in 1..Len(input) : ValidPair(input[i])}

\* C9 as stated: the decode succeeds and the map holds exactly the entries
\* of the valid pairs.
PartialDecodeKeepsEveryValidPair ==
    pc = "done" =>
        /\ output.res = "ok"
        /\ DOMAIN output.HeartbeatStatuses = {input[i].a[1].s : i \in ValidIndexes}
        /\ \A i \in ValidIndexes :
              output.HeartbeatStatuses[input[i].a[1].s]
                  = UnmarshalHeartbeatStatus(input[i].a[2]).val

\* C9 as amended: the decode succeeds and the map holds exactly the keys of
\* the valid pairs, each with the status of the last valid pair of that key.
PartialDecodeLastValidPairWins ==
    pc = "done" =>
        /\ output.res = "ok"
        /\ DOMAIN output.HeartbeatStatuses = {input[i].a[1].s : i \in ValidIndexes}
        /\ \A i \in ValidIndexes :
              (\A j \in ValidIndexes : j > i => input[j].a[1].s # input[i].a[1].s)
                  => output.HeartbeatStatuses[input[i].a[1].s]
                         = UnmarshalHeartbeatStatus(input[i].a[2]).val

\* A decode that skipped a pair between two valid pairs of the same key.
PartialDecodeLastValidPairWinsWitness ==
    /\ pc = "done"
    /\ input = <<Pair("0xA", StatusObject(1000, JNum(1))),
                 JArr(<<JNum(1), StatusObject(1000, JNum(1))>>),
                 Pair("0xA", StatusObject(4100, JNull))>>
    /\ output.HeartbeatStatuses = MapSet(EmptyMap, "0xA", HeartbeatStatus(4100, NilPointer))

(***************************************************************************)
(* findLatestDir on its own: one call on every directory of a bounded set. *)
(***************************************************************************)
N07 == <<48, 55>>
N7 == <<55>>
N5a == <<53, 97>>
Minus3 == <<45, 51>>

Names == {Day0, Day1, Day2, N2, N9, N10, Abc, <<97>>, N07, N7, N5a, Minus3}

\* The directories with at most MaxEntries entries, each name used once.
Directories ==
    {d \in SUBSET ([name : Names, isDir : BOOLEAN]) :
        /\ Cardinality(d) <= MaxEntries
        /\ \A e \in d : \A f \in d : e.name = f.name => e = f}

NoPath == [err |-> FALSE, path |-> <<>>]

InitLocate ==
    /\ pc = "locate"
    /\ input \in Directories
    /\ output = NoPath
    /\ config \in EvalConfigs
    /\ fs = [base |-> {}, sub |-> [d \in {} |-> {}]]
    /\ latestLogFile = <<>>
    /\ file = <<>>
    /\ pos = 0
    /\ decErr = ""
    /\ lastRawEntry = NilRaw
    /\ handles = 0
    /\ logEntry = NoEntry
    /\ alertMessage = NoMessage
    /\ alerts = <<>>
    /\ evaluated = <<>>
    /\ lastAttempt = "none"
    /\ lastSleep = 0
    /\ openedPath = <<>>
    /\ alertedBefore = FALSE
    /\ errLines = 0

\* findLatestDir(config.BasePath) on a base path that lists input.
ApplyFindLatestDir ==
    /\ pc = "locate"
    /\ output' = FindLatestDir(config.BasePath, input)
    /\ pc' = "done"
    /\ UNCHANGED <<config, openedPath, alertedBefore, fs, latestLogFile, handles, lastAttempt, lastSleep, input>>
    /\ UNCHANGED alertVars
    /\ UNCHANGED decoderVars

\* findLatestFile(latestDir) on a directory that lists input.
ApplyFindLatestFile ==
    /\ pc = "locate"
    /\ output' = FindLatestFile(Append(config.BasePath, Day2), input)
    /\ pc' = "doneFile"
    /\ UNCHANGED <<config, openedPath, alertedBefore, fs, latestLogFile, handles, lastAttempt, lastSleep, input>>
    /\ UNCHANGED alertVars
    /\ UNCHANGED decoderVars

NextLocate == ApplyFindLatestDir \/ ApplyFindLatestFile

SpecLocate == InitLocate /\ [][NextLocate]_vars

SubdirectoryNames == {e.name : e \in {f \in input : f.isDir}}

\* C10: findLatestDir returns the subdirectory whose name is greatest in
\* string order, ignoring plain files, and an error without subdirectories.
LatestDirIsLexicographicMaximum ==
    pc = "done" =>
        IF SubdirectoryNames = {} THEN output.err
        ELSE /\ ~output.err
             /\ Len(output.path) = Len(config.BasePath) + 1
             /\ SubSeq(output.path, 1, Len(config.BasePath)) = config.BasePath
             /\ LET latest == output.path[Len(output.path)]
                IN  /\ latest \in SubdirectoryNames
                    /\ \A d \in SubdirectoryNames : ~StrLess(latest, d)
                    /\ SubdirectoryNames = {Day0, Day1, Day2} => latest = Day2
                    /\ SubdirectoryNames = {N2, N9, N10} => latest = N9

\* A call that chose "9" over "10" and over the plain file "abc".
LatestDirIsLexicographicMaximumWitness ==
    /\ pc = "done"
    /\ input = {Dir(N9), Dir(N10), PlainFile(Abc)}
    /\ output = [err |-> FALSE, path |-> Append(BasePath, N9)]


(***************************************************************************)
(* findLatestFile on its own.                                              *)
(***************************************************************************)
PlainFileNames == {e.name : e \in {f \in input : ~f.isDir}}

IsInteger(name) == ~Atoi(name).err

SelectedFile == output.path[Len(output.path)]

\* C11: when every plain file's name is an integer for strconv.Atoi,
\* findLatestFile returns the file whose value is numerically greatest, and
\* never an entry that is a directory.
LatestFileIsNumericMaximum ==
    (/\ pc = "doneFile"
     /\ PlainFileNames # {}
     /\ \A n \in PlainFileNames : IsInteger(n)) =>
        /\ ~output.err
        /\ Len(output.path) = Len(config.BasePath) + 2
        /\ SelectedFile \in PlainFileNames
        /\ \A n \in PlainFileNames : Atoi(n).val <= Atoi(SelectedFile).val
        /\ PlainFileNames = {N10, N2, N9} => SelectedFile = N10
        /\ PlainFileNames = {Minus3, N07} => SelectedFile = N07

\* A call that chose the file "10" over the file "9" and the directory "7".
LatestFileIsNumericMaximumWitness ==
    /\ pc = "doneFile"
    /\ input = {PlainFile(N9), PlainFile(N10), Dir(N7)}
    /\ output = [err |-> FALSE, path |-> Append(Append(BasePath, Day2), N10)]

(***************************************************************************)
(* The text of the alert message.                                          *)
(***************************************************************************)
\* fmt's %v of a float64 given in hundredths: 4100 is "41", 3 is "0.03".
FormatFloat(h) ==
    LET whole == ToString(h \div 100)
        frac  == h % 100
    IN  IF frac = 0 THEN whole
        ELSE IF frac % 10 = 0 THEN whole \o "." \o ToString(frac \div 10)
        ELSE IF frac < 10 THEN whole \o ".0" \o ToString(frac)
        ELSE whole \o "." \o ToString(frac)

\* C12: every alert message embeds the configured address, the value of
\* since_last_success, and last_ack_duration as its numeric value when the
\* pointer is set and as "none" when it is nil.
MessageRendersLastAckDuration ==
    alertMessage # NoMessage =>
        LET status == Lookup(logEntry.HeartbeatStatuses, config.ValidatorAddress)
        IN  /\ alertMessage.address = config.ValidatorAddress
            /\ alertMessage.since_last_success = status.SinceLastSuccess
            /\ alertMessage.last_ack_duration =
                   IF status.LastAckDuration.present
                   THEN FormatFloat(status.LastAckDuration.val)
                   ELSE "none"

(***************************************************************************)
(* The alert decision of a cycle as a function of what the cycle read.     *)
(***************************************************************************)
\* The record a cycle passes to processLogEntry alerts for the address.
Alerting(f, address) ==
    LET ev == EvaluationsOf(LastValue(f))
    IN  /\ ev # <<>>
        /\ Outcome(ev[1].HeartbeatStatuses, address) = "alert"

Decided == pc \in {"continue", "slack", "pagerduty", "close", "sleep"}

Dispatching == pc \in {"slack", "pagerduty"} \/ alerts # <<>>

\* C13: whether a cycle dispatches an alert is determined by the file it
\* read and the configured address alone, whatever happened in earlier
\* cycles; a record that alerted before alerts again.
AlertDecisionStateless ==
    Decided =>
        /\ Dispatching <=> Alerting(file, config.ValidatorAddress)
        /\ \A i \in 1..Len(alerts) :
              alerts[i].message =
                 AlertMessage(config.ValidatorAddress,
                              Lookup(EvaluationsOf(LastValue(file))[1].HeartbeatStatuses,
                                     config.ValidatorAddress))

\* A cycle that has issued both notifier calls after an earlier cycle had
\* alerted, with a handle of an earlier cycle still open.
AlertDecisionStatelessWitness ==
    /\ alertedBefore
    /\ pc = "close"
    /\ Len(alerts) = 2
    /\ handles = 2

(***************************************************************************)
(* The path of the log file.                                               *)
(***************************************************************************)
\* C14: latestLogFile is assigned by the startup step only, and every
\* os.Open, successful or not, is given its unchanged value, also after a
\* newer directory and file have appeared.
PathLocatedOnce ==
    [][/\ pc # "start" => latestLogFile' = latestLogFile
       /\ pc = "start" =>
              latestLogFile' = FindLatestLogFile(config.BasePath, fs).path
       /\ pc = "open" /\ pc' \in {"decode", "backoff"} =>
              openedPath' = latestLogFile]_vars

\* A successful open of the path found at startup although a newer
\* directory holds a newer file by now.
PathLocatedOnceWitness ==
    /\ pc = "decode"
    /\ lastAttempt = "ok"
    /\ Dir(Day3) \in fs.base
    /\ openedPath = Append(Append(BasePath, Day2), N10)
    /\ FindLatestLogFile(config.BasePath, fs).path = Append(Append(BasePath, Day3), N2)

(***************************************************************************)
(* The handles to the log file.                                            *)
(***************************************************************************)
\* C15: the handle a cycle opened is closed before the file is opened
\* again on every path through the cycle, so that at most one handle to
\* the log file is open in every reachable state.
AtMostOneHandleOpen ==
    /\ handles <= 1
    /\ pc = "open" => handles = 0

(***************************************************************************)
(* findLatestFile on names that mix integers and other names.              *)
(***************************************************************************)
\* Name n compares strictly greater than name m: by value when both are
\* integers, as strings otherwise.
ComparesGreater(n, m) ==
    IF IsInteger(n) /\ IsInteger(m) THEN Atoi(m).val < Atoi(n).val
    ELSE StrLess(m, n)

ComparatorTransitiveOn(names) ==
    \A a \in names : \A b \in names : \A c \in names :
        ComparesGreater(b, a) /\ ComparesGreater(c, b) => ComparesGreater(c, a)

\* C16 as stated: for every non-empty set of file names, mixed ones
\* included, no file compares strictly greater than the selected one.
SelectedFileIsComparatorMaximum ==
    (pc = "doneFile" /\ PlainFileNames # {}) =>
        /\ ~output.err
        /\ SelectedFile \in PlainFileNames
        /\ \A n \in PlainFileNames : ~ComparesGreater(n, SelectedFile)

\* C16 as amended: no file compares strictly greater than the selected one
\* whenever the comparator is transitive on the file names; on other mixed
\* sets the selected file is the last of the sorted listing and may have a
\* file that compares greater: of "10", "5a" and "9" the file "9" is selected.
SelectedFileIsMaximumWhenTransitive ==
    (pc = "doneFile" /\ PlainFileNames # {}) =>
        /\ ~output.err
        /\ SelectedFile \in PlainFileNames
        /\ ComparatorTransitiveOn(PlainFileNames) =>
              \A n \in PlainFileNames : ~ComparesGreater(n, SelectedFile)
        /\ PlainFileNames = {N10, N5a, N9} => SelectedFile = N9
        /\ PlainFileNames = {N10, Abc} => SelectedFile = Abc

\* A call on the mixed names "10", "9" and "abc", on which the comparator
\* is transitive, that chose "abc".
SelectedFileIsMaximumWhenTransitiveWitness ==
    /\ pc = "doneFile"
    /\ input = {PlainFile(N10), PlainFile(N9), PlainFile(Abc)}
    /\ ComparatorTransitiveOn(PlainFileNames)
    /\ output = [err |-> FALSE, path |-> Append(Append(BasePath, Day2), Abc)]

====
